---- MODULE Spec2Model ----
(***************************************************************************)
(* Model of src/App.js: the induction visualizer screen (a React function  *)
(* component with five pieces of hook state, a flux effect, an EMF timer   *)
(* and a DeviceMotion listener).                                           *)
(*                                                                         *)
(* Numbers.  The program computes in IEEE doubles; the model computes in   *)
(* integers of fixed units:                                                *)
(*   angles          half degrees            (OneDegree = 2)               *)
(*   rotation.beta   PiRad-ths of pi radians (PiRad = 720)                 *)
(*   field strength  half teslas, the slider's step                        *)
(*   lengths         1e-4 m; areas mm^2 (truncated)                        *)
(*   cosine          hundredths, rounded to nearest                        *)
(*   flux, EMF       0.5 T * 1 mm^2 * 0.01 = 5e-9 Wb (resp. V)             *)
(* At this resolution cos(-90 deg) is 0; Math.cos gives 6.1e-17 there.     *)
(*                                                                         *)
(* Scheduling.  React's contract for function components is modelled, not  *)
(* one React version: a state setter changes the stored hook state; a      *)
(* render happens some time later and captures the stored values as the    *)
(* constants its closures see; the passive effects (useEffect) of a render *)
(* run some time after it is committed and before the next render.  Timer  *)
(* ticks, sensor events and slider events are separate tasks of the one JS *)
(* thread and may run between any two of those steps.                      *)
(***************************************************************************)
EXTENDS Integers, FiniteSets, Sequences, TLC

VARIABLES
    theta,          \* useState(0): tilt angle, half degrees
    fieldStrength,  \* useState(1): half teslas
    phi,            \* useState(0): flux
    emf,            \* useState(0): induced emf
    prevPhi,        \* useState(0): flux of the previous sample
    rendered,       \* the values captured by the last committed render
    shown,          \* which arrows the last committed render shows
    view,           \* the field-line grid the last committed render shows
    savedCallback,  \* savedCallback.current: <<>> (undefined), or <<phi, prevPhi>>,
                    \* the constants the stored calculateEmf closes over
    effectsPending, \* the last render's passive effects have not run yet
    fluxEffectDue,  \* ... and the deps [fieldStrength, theta] changed in it
    phase,          \* "mounting" | "mounted" | "unmounted"
    interval,       \* "none" | "live" | "cleared": the setInterval timer
    clearCalls,     \* number of clearInterval calls
    query,          \* "none" | "pending" | "resolved": isAvailableAsync()
    available,      \* what the query resolved to
    updateInterval, \* DeviceMotion.setUpdateInterval argument, 0 = never set
    subscriber,     \* "null" | "sub": the effect's local variable
    listenerLive,   \* a listener of this screen is registered with DeviceMotion
    listenerTheta,  \* the theta the listener's closure sees
    addCalls,       \* number of addListener calls
    removeCalls,    \* number of subscriber.remove() calls
    error,          \* an exception was thrown (remove() on null)
    lastTickPhi,    \* history: <<>>, or <<the flux stored when the last tick fired>>
    ticks,          \* history: number of ticks counted (CountedTick only)
    sumEmf          \* history: sum of the emf values those ticks stored

vars == <<theta, fieldStrength, phi, emf, prevPhi, rendered, shown, view,
          savedCallback, effectsPending, fluxEffectDue, phase, interval,
          clearCalls, query, available, updateInterval, subscriber,
          listenerLive, listenerTheta, addCalls, removeCalls, error,
          lastTickPhi, ticks, sumEmf>>

tickHistory == <<ticks, sumEmf>>
hookState == <<theta, fieldStrength, phi, emf, prevPhi>>
timerVars == <<interval, clearCalls>>
sensorVars == <<query, available, updateInterval, subscriber, listenerLive,
                listenerTheta, addCalls, removeCalls, error>>
renderVars == <<rendered, shown, view, savedCallback, effectsPending,
                fluxEffectDue>>

----------------------------------------------------------------------------
(* Units and program constants *)

OneDegree == 2          \* the threshold 1 of line 87, in half degrees
PiRad == 720            \* Math.PI, in the unit of rotation.beta
screenWidthMeters == 709
screenHeightMeters == 1436
phoneArea == (screenWidthMeters * screenHeightMeters) \div 100
SensorInterval == 500
OneTesla == 2           \* 1 T in slider steps of 0.5 T
GridSlots == 50         \* new Array(50)
SpacerWidth == 60
MaxTicks == 3           \* ticks whose samples CountedTick sums

Abs(x) == IF x < 0 THEN -x ELSE x

\* Inputs: rotation.beta readings (0.5, 1, 1.5 and -1 degrees) and slider
\* positions (0 T and 1 T)
Betas == {2, 4, 6, -4}
SliderValues == {0, 2}

----------------------------------------------------------------------------
(* Pure functions *)

\* Math.cos, in hundredths rounded to nearest, of an angle in PiRad-ths of pi
CosTable ==
    [x \in {-720, -680, -678, -480, -364, -362, -360, -358, -356, -354, -240,
            -238, -42, -40, 0, 180} |->
        CASE x = -720 -> -100   \* cos(-180 deg)
          [] x = -680 -> -98    \* cos(-170 deg)
          [] x = -678 -> -98    \* cos(-169.5 deg)
          [] x = -480 -> -50    \* cos(-120 deg)
          [] x = 180  -> 71     \* cos(45 deg)
          [] x = -364 -> -2     \* cos(-91 deg)
          [] x = -362 -> -1     \* cos(-90.5 deg)
          [] x = -360 -> 0      \* cos(-90 deg)
          [] x = -358 -> 1      \* cos(-89.5 deg)
          [] x = -356 -> 2      \* cos(-89 deg)
          [] x = -354 -> 3      \* cos(-88.5 deg)
          [] x = -240 -> 50     \* cos(-60 deg)
          [] x = -238 -> 51     \* cos(-59.5 deg)
          [] x = -42  -> 98     \* cos(-10.5 deg)
          [] x = -40  -> 98     \* cos(-10 deg)
          [] x = 0    -> 100]   \* cos(0)

Cos(x) == CosTable[x]

\* (data.rotation.beta * 180) / Math.PI
ToDegrees(beta) == (beta * 180 * OneDegree) \div PiRad

\* The tilt angles the readings convert to, and the initial one
Angles == {0} \cup {ToDegrees(beta) : beta \in Betas}

\* Math.abs(theta - angle) >= 1
PassesFilter(ref, angle) == Abs(ref - angle) >= OneDegree

\* B * A * Math.cos(((rads - 90) * Math.PI) / 180)
calculateFlux(B, A, rads) ==
    B * A * Cos(((rads - 90 * OneDegree) * PiRad) \div (180 * OneDegree))

\* -1 * 10 * (deltaPhi / deltaT), deltaT = 1
EmfOf(p, prev) ==
    LET deltaPhi == p - prev
        deltaT == 1
    IN  -1 * 10 * (deltaPhi \div deltaT)

\* emf > 0 && <arrow-long-left>,  emf < 0 && <arrow-long-right>
ShowLeft(e) == e > 0
\* (variant: the right arrow also at emf = 0)
ShowRight_OrZero(e) == e <= 0
ShowRight(e) == e < 0

\* (variant: the threshold is exclusive, theta > 80)
outOfScreen_Strict(t) == t > 80 * OneDegree
\* theta >= 80,  theta <= -80
outOfScreen(t) == t >= 80 * OneDegree
intoScreen(t) == t <= -80 * OneDegree

\* Layout lengths are kept in ninths of a layout unit, which makes
\* (|90 - theta| / 90) * 40 an integer for every half degree.
Px(n) == n * 9

\* (variant: the height is the complement, (1 - |90 - theta| / 90) * 40)
arrowHeight_Complement(t) ==
    IF intoScreen(t) \/ outOfScreen(t)
    THEN Px(40)
    ELSE Px(40) - (Abs(90 * OneDegree - t) * Px(40)) \div (90 * OneDegree)
\* intoScreen || outOfScreen ? 40 : (Math.abs(90 - theta) / 90) * 40
arrowHeight(t) ==
    IF intoScreen(t) \/ outOfScreen(t)
    THEN Px(40)
    ELSE (Abs(90 * OneDegree - t) * Px(40)) \div (90 * OneDegree)

\* height: (intoScreen || outOfScreen) ? 20 : arrowHeight
cellHeight(t) ==
    IF intoScreen(t) \/ outOfScreen(t) THEN Px(20) ELSE arrowHeight(t)

\* (variant: the margin is not halved)
marginVertical_NoHalf(t) ==
    IF intoScreen(t) \/ outOfScreen(t)
    THEN Px(10)
    ELSE Px(40) - arrowHeight(t)
\* marginVertical: (intoScreen || outOfScreen) ? 10 : (40 - arrowHeight) / 2
marginVertical(t) ==
    IF intoScreen(t) \/ outOfScreen(t)
    THEN Px(10)
    ELSE (Px(40) - arrowHeight(t)) \div 2

\* marginHorizontal: (intoScreen || outOfScreen) ? 10 : undefined
marginHorizontal(t) ==
    IF intoScreen(t) \/ outOfScreen(t) THEN <<Px(10)>> ELSE <<>>

\* name={outOfScreen ? 'circle' : intoScreen ? 'circle-with-cross' : 'arrow-long-down'}
glyphName(t) ==
    IF outOfScreen(t) THEN "circle"
    ELSE IF intoScreen(t) THEN "circle-with-cross"
    ELSE "arrow-long-down"

\* size={outOfScreen || intoScreen ? 20 : 40}
glyphSize(t) == IF outOfScreen(t) \/ intoScreen(t) THEN 20 ELSE 40

\* (variant: the divisor is 100)
Opacity_Per100(B) == (B * 100) \div (100 * OneTesla)
\* opacity: fieldStrength / 10, in percent
Opacity(B) == (B * 100) \div (10 * OneTesla)

\* (variant: the cells are at the odd indexes)
Slots_OddCells(n) ==
    [index \in 0 .. (n - 1) |->
        IF index % 2 = 1
        THEN [kind |-> "cell", width |-> 0]
        ELSE [kind |-> "spacer", width |-> SpacerWidth]]
\* new Array(50).fill(0).map((_, index) => index % 2 === 0 ? cell : spacer)
Slots(n) ==
    [index \in 0 .. (n - 1) |->
        IF index % 2 = 0
        THEN [kind |-> "cell", width |-> 0]
        ELSE [kind |-> "spacer", width |-> SpacerWidth]]

\* The field-line grid of a render with tilt angle t and field strength B
GridView(t, B) ==
    [name |-> glyphName(t),
     size |-> glyphSize(t),
     height |-> cellHeight(t),
     marginVertical |-> marginVertical(t),
     marginHorizontal |-> marginHorizontal(t),
     opacity |-> Opacity(B),
     slots |-> Slots(GridSlots)]

\* (variant: theta left out of the dependency array)
FluxDepsChanged_FieldOnly(oldB, oldT, newB, newT) == oldB # newB
\* the dependency array [fieldStrength, theta] of the flux effect
FluxDepsChanged(oldB, oldT, newB, newT) == <<oldB, oldT>> # <<newB, newT>>

----------------------------------------------------------------------------
(* The state after the first render is committed, before its effects run *)

Init ==
    /\ theta = 0
    /\ fieldStrength = 2
    /\ phi = 0
    /\ emf = 0
    /\ prevPhi = 0
    /\ rendered = [theta |-> 0, fieldStrength |-> 2, phi |-> 0, emf |-> 0,
                   prevPhi |-> 0]
    /\ shown = [left |-> ShowLeft(0), right |-> ShowRight(0)]
    /\ view = GridView(0, 2)
    /\ savedCallback = <<>>
    /\ effectsPending = TRUE
    /\ fluxEffectDue = TRUE
    /\ phase = "mounting"
    /\ interval = "none"
    /\ clearCalls = 0
    /\ query = "none"
    /\ available = FALSE
    /\ updateInterval = 0
    /\ subscriber = "null"
    /\ listenerLive = FALSE
    /\ listenerTheta = 0
    /\ addCalls = 0
    /\ removeCalls = 0
    /\ error = FALSE
    /\ lastTickPhi = <<>>
    /\ ticks = 0
    /\ sumEmf = 0

----------------------------------------------------------------------------
(* Actions *)

\* (variant: the setInterval effect has no dependency array, so every later
\* run of the effects clears the timer and creates a new one)
RunEffects_TimerEachRender ==
    /\ effectsPending
    /\ phase # "unmounted"
    /\ phi' = IF fluxEffectDue
              THEN calculateFlux(rendered.fieldStrength, phoneArea, rendered.theta)
              ELSE phi
    /\ savedCallback' = <<rendered.phi, rendered.prevPhi>>
    /\ effectsPending' = FALSE
    /\ fluxEffectDue' = FALSE
    /\ IF phase = "mounting"
       THEN /\ phase' = "mounted"
            /\ interval' = "live"
            /\ query' = "pending"
            /\ listenerTheta' = rendered.theta
            /\ UNCHANGED clearCalls
       ELSE /\ clearCalls' = clearCalls + 1
            /\ UNCHANGED <<phase, interval, query, listenerTheta>>
    /\ UNCHANGED <<theta, fieldStrength, emf, prevPhi, rendered, shown, view,
                   available, updateInterval, subscriber,
                   listenerLive, addCalls, removeCalls, error, lastTickPhi,
                   tickHistory>>
\* (variant: the flux effect also advances prevPhi, setPrevPhi(phi))
RunEffects_AdvancesPrev ==
    /\ effectsPending
    /\ phase # "unmounted"
    /\ phi' = IF fluxEffectDue
              THEN calculateFlux(rendered.fieldStrength, phoneArea, rendered.theta)
              ELSE phi
    /\ prevPhi' = IF fluxEffectDue THEN rendered.phi ELSE prevPhi
    /\ savedCallback' = <<rendered.phi, rendered.prevPhi>>
    /\ effectsPending' = FALSE
    /\ fluxEffectDue' = FALSE
    /\ IF phase = "mounting"
       THEN /\ phase' = "mounted"
            /\ interval' = "live"
            /\ query' = "pending"
            /\ listenerTheta' = rendered.theta
       ELSE UNCHANGED <<phase, interval, query, listenerTheta>>
    /\ UNCHANGED <<theta, fieldStrength, emf, rendered, shown, view,
                   clearCalls, available, updateInterval, subscriber,
                   listenerLive, addCalls, removeCalls, error, lastTickPhi,
                   tickHistory>>

\* The passive effects of the last committed render, in source order: the
\* flux effect (when its deps changed), the savedCallback effect (every
\* render) and, after the first render only, setInterval and the
\* DeviceMotion effect up to its isAvailableAsync() call.
RunEffects ==
    /\ effectsPending
    /\ phase # "unmounted"
    /\ phi' = IF fluxEffectDue
              THEN calculateFlux(rendered.fieldStrength, phoneArea, rendered.theta)
              ELSE phi
    /\ savedCallback' = <<rendered.phi, rendered.prevPhi>>
    /\ effectsPending' = FALSE
    /\ fluxEffectDue' = FALSE
    /\ IF phase = "mounting"
       THEN /\ phase' = "mounted"
            /\ interval' = "live"
            /\ query' = "pending"
            /\ listenerTheta' = rendered.theta
       ELSE UNCHANGED <<phase, interval, query, listenerTheta>>
    /\ UNCHANGED <<theta, fieldStrength, emf, prevPhi, rendered, shown, view,
                   clearCalls, available, updateInterval, subscriber,
                   listenerLive, addCalls, removeCalls, error, lastTickPhi,
                   tickHistory>>

\* A re-render: React renders when stored state differs from what the last
\* render saw, after flushing the previous render's passive effects.
Render ==
    /\ phase = "mounted"
    /\ ~effectsPending
    /\ hookState # <<rendered.theta, rendered.fieldStrength, rendered.phi,
                     rendered.emf, rendered.prevPhi>>
    /\ rendered' = [theta |-> theta, fieldStrength |-> fieldStrength,
                    phi |-> phi, emf |-> emf, prevPhi |-> prevPhi]
    /\ shown' = [left |-> ShowLeft(emf), right |-> ShowRight(emf)]
    /\ view' = GridView(theta, fieldStrength)
    /\ effectsPending' = TRUE
    /\ fluxEffectDue' = FluxDepsChanged(rendered.fieldStrength, rendered.theta,
                                        fieldStrength, theta)
    /\ UNCHANGED <<hookState, savedCallback, phase, timerVars, sensorVars,
                   lastTickPhi, tickHistory>>

\* (variant: the if (isAvailable) test is missing)
ResolveAvailability_NoTest(isAvailable) ==
    /\ query = "pending"
    /\ query' = "resolved"
    /\ available' = isAvailable
    /\ updateInterval' = SensorInterval
    /\ subscriber' = "sub"
    /\ listenerLive' = TRUE
    /\ addCalls' = addCalls + 1
    /\ UNCHANGED <<hookState, renderVars, phase, timerVars, listenerTheta,
                   removeCalls, error, lastTickPhi, tickHistory>>

\* The promise of DeviceMotion.isAvailableAsync() resolves; its .then
\* callback runs whether or not the screen is still mounted.
ResolveAvailability(isAvailable) ==
    /\ query = "pending"
    /\ query' = "resolved"
    /\ available' = isAvailable
    /\ IF isAvailable
       THEN /\ updateInterval' = SensorInterval
            /\ subscriber' = "sub"
            /\ listenerLive' = TRUE
            /\ addCalls' = addCalls + 1
       ELSE UNCHANGED <<updateInterval, subscriber, listenerLive, addCalls>>
    /\ UNCHANGED <<hookState, renderVars, phase, timerVars, listenerTheta,
                   removeCalls, error, lastTickPhi, tickHistory>>

\* (variant: the listener calls the wrong setter, setFieldStrength(angle))
SensorUpdate_WrongSetter(beta) ==
    /\ listenerLive
    /\ LET angle == ToDegrees(beta)
       IN  fieldStrength' =
               IF phase = "mounted" /\ PassesFilter(listenerTheta, angle)
               THEN angle
               ELSE fieldStrength
    /\ UNCHANGED <<theta, phi, emf, prevPhi, renderVars, phase,
                   timerVars, sensorVars, lastTickPhi, tickHistory>>
\* (variant: the listener compares with the stored tilt angle)
SensorUpdate_StoredRef(beta) ==
    /\ listenerLive
    /\ LET angle == ToDegrees(beta)
       IN  theta' = IF phase = "mounted" /\ PassesFilter(theta, angle)
                    THEN angle
                    ELSE theta
    /\ UNCHANGED <<fieldStrength, phi, emf, prevPhi, renderVars, phase,
                   timerVars, sensorVars, lastTickPhi, tickHistory>>
\* The listener of lines 83-90 receives a reading.  A setter called on an
\* unmounted component changes nothing.
SensorUpdate(beta) ==
    /\ listenerLive
    /\ LET angle == ToDegrees(beta)
       IN  theta' = IF phase = "mounted" /\ PassesFilter(listenerTheta, angle)
                    THEN angle
                    ELSE theta
    /\ UNCHANGED <<fieldStrength, phi, emf, prevPhi, renderVars, phase,
                   timerVars, sensorVars, lastTickPhi, tickHistory>>

\* (variant: the slider handler also resets the tilt angle, setTheta(0))
SliderChange_ResetsTheta(newFieldStrength) ==
    /\ phase = "mounted"
    /\ fieldStrength' = newFieldStrength
    /\ theta' = 0
    /\ UNCHANGED <<phi, emf, prevPhi, renderVars, phase, timerVars,
                   sensorVars, lastTickPhi, tickHistory>>
\* onValueChange of the slider
SliderChange(newFieldStrength) ==
    /\ phase = "mounted"
    /\ fieldStrength' = newFieldStrength
    /\ UNCHANGED <<theta, phi, emf, prevPhi, renderVars, phase, timerVars,
                   sensorVars, lastTickPhi, tickHistory>>

\* A timer tick: tick() calls savedCallback.current(), the calculateEmf of
\* the render whose savedCallback effect ran last.
Tick ==
    /\ interval = "live"
    /\ emf' = EmfOf(savedCallback[1], savedCallback[2])
    /\ prevPhi' = savedCallback[1]
    /\ lastTickPhi' = <<phi>>
    /\ UNCHANGED <<theta, fieldStrength, phi, renderVars, phase, timerVars,
                   sensorVars, tickHistory>>

\* The same tick, with the history of the samples kept: their number and the
\* sum of the emf values they stored.
CountedTick ==
    /\ interval = "live"
    /\ ticks < MaxTicks
    /\ emf' = EmfOf(savedCallback[1], savedCallback[2])
    /\ prevPhi' = savedCallback[1]
    /\ lastTickPhi' = <<phi>>
    /\ ticks' = ticks + 1
    /\ sumEmf' = sumEmf + EmfOf(savedCallback[1], savedCallback[2])
    /\ UNCHANGED <<theta, fieldStrength, phi, renderVars, phase, timerVars,
                   sensorVars>>

\* The screen unmounts: the cleanups of the two mount-time effects run.
\* React flushes pending passive effects before it commits the unmount.
Unmount ==
    /\ phase = "mounted"
    /\ ~effectsPending
    /\ phase' = "unmounted"
    /\ interval' = "cleared"
    /\ clearCalls' = clearCalls + 1
    /\ IF subscriber # "null"
       THEN /\ removeCalls' = removeCalls + 1
            /\ listenerLive' = FALSE
       ELSE UNCHANGED <<removeCalls, listenerLive>>
    /\ UNCHANGED <<hookState, renderVars, query, available, updateInterval,
                   subscriber, listenerTheta, addCalls, error, lastTickPhi,
                   tickHistory>>

Next ==
    \/ RunEffects
    \/ Render
    \/ \E isAvailable \in BOOLEAN : ResolveAvailability(isAvailable)
    \/ \E beta \in Betas : SensorUpdate(beta)
    \/ \E v \in SliderValues : SliderChange(v)
    \/ Tick
    \/ Unmount

Spec == Init /\ [][Next]_vars

\* The screen while it is mounted and untouched by the timer, fed the tilt
\* angles around the glyph thresholds (0.5, 30, 79.5, 80, 90, 135 degrees
\* and -30, -79.5, -80, -90 degrees) and the slider positions 0, 5 and 10 T.
GridBetas == {2, 120, 318, 320, 360, 540, -120, -318, -320, -360}
GridSliderValues == {0, 5 * OneTesla, 10 * OneTesla}
GridAngles == {0} \cup {ToDegrees(beta) : beta \in GridBetas}

GridNext ==
    \/ RunEffects
    \/ Render
    \/ \E isAvailable \in BOOLEAN : ResolveAvailability(isAvailable)
    \/ \E beta \in GridBetas : SensorUpdate(beta)
    \/ \E v \in GridSliderValues : SliderChange(v)

GridSpec == Init /\ [][GridNext]_vars
\* The screen with the samples of its first MaxTicks ticks summed
SumNext ==
    \/ RunEffects
    \/ Render
    \/ \E isAvailable \in BOOLEAN : ResolveAvailability(isAvailable)
    \/ \E beta \in Betas : SensorUpdate(beta)
    \/ \E v \in SliderValues : SliderChange(v)
    \/ CountedTick
    \/ Unmount

SumSpec == Init /\ [][SumNext]_vars
\* The scheduler runs a due render and due passive effects.
FairSpec == Spec /\ WF_vars(Render) /\ WF_vars(RunEffects)

----------------------------------------------------------------------------
(* Properties *)

\* C1: a sensor update with converted angle a replaces the stored tilt angle
\* iff a differs from the tilt angle stored at that moment by at least one
\* degree; otherwise the stored tilt angle stays as it is.
C1_HysteresisAgainstStored ==
    [][\A beta \in Betas :
          (phase = "mounted" /\ SensorUpdate(beta)) =>
              theta' = IF Abs(ToDegrees(beta) - theta) >= OneDegree
                       THEN ToDegrees(beta)
                       ELSE theta]_vars

\* C2: in every render the flux it shows is calculateFlux of the field
\* strength and tilt angle it shows.
C2_FluxConsistentAtRender ==
    rendered.phi =
        calculateFlux(rendered.fieldStrength, phoneArea, rendered.theta)

\* C3: every tick sets the stored emf to -10 * (flux - previous flux) of the
\* values stored when it fires, and the stored previous flux to that flux.
C3_TickSamplesStored ==
    [][Tick => (emf' = EmfOf(phi, prevPhi) /\ prevPhi' = phi)]_vars

\* C4: the callback a tick runs holds the flux and previous flux that are
\* stored at the moment the tick fires.
C4_CallbackFresh ==
    [][Tick => savedCallback = <<phi, prevPhi>>]_vars

\* C5: once the screen is unmounted, no listener and no timer of it is live,
\* clearInterval was called once and every listener added was removed once.
C5_Teardown ==
    phase = "unmounted" =>
        /\ ~listenerLive
        /\ interval = "cleared"
        /\ clearCalls = 1
        /\ removeCalls = addCalls

\* C6: when the availability query reports the sensor unavailable, no update
\* interval is set, no listener is registered or removed, nothing throws and
\* the tilt angle stays 0; the timer still runs while the screen is mounted
\* and the flux still follows the slider once the effects of a render with
\* the stored field strength have run.
C6_Unavailable ==
    (query = "resolved" /\ ~available) =>
        /\ updateInterval = 0
        /\ subscriber = "null"
        /\ ~listenerLive
        /\ addCalls = 0
        /\ removeCalls = 0
        /\ ~error
        /\ theta = 0
        /\ phase = "mounted" => interval = "live"
        /\ (~effectsPending /\ rendered.fieldStrength = fieldStrength) =>
               phi = calculateFlux(fieldStrength, phoneArea, 0)

\* C6 witness: the sensor was unavailable, the slider was moved, a tick ran
\* and the screen was unmounted.
C6_Witness ==
    /\ query = "resolved"
    /\ ~available
    /\ fieldStrength = 0
    /\ lastTickPhi # <<>>
    /\ phase = "unmounted"

\* C7: if the screen stays mounted and the field strength and tilt angle
\* stop changing, the stored flux becomes and stays calculateFlux of them.
C7_EventuallyConsistent ==
    \A b \in SliderValues : \A t \in Angles :
        <>[](phase = "mounted" /\ fieldStrength = b /\ theta = t)
            => <>[](phi = calculateFlux(b, phoneArea, t))

\* C7 witness: after a tilt update and a slider round trip the recomputed
\* flux is the non-zero flux of the stored inputs.
C7_Witness ==
    /\ phase = "mounted"
    /\ ~effectsPending
    /\ theta # 0
    /\ rendered.theta = theta
    /\ rendered.fieldStrength = fieldStrength
    /\ phi # 0
    /\ phi = calculateFlux(fieldStrength, phoneArea, theta)

\* C8: a tick that fires with the same stored flux as the tick before it
\* stores an emf of 0, and a render of emf 0 shows neither arrow.
C8_ZeroCase ==
    /\ [][(Tick /\ lastTickPhi = <<phi>>) => emf' = 0]_vars
    /\ [](rendered.emf = 0 => (~shown.left /\ ~shown.right))

\* C9: a render shows the left arrow iff its emf is positive, the right
\* arrow iff its emf is negative, no arrow iff its emf is 0, never both.
C9_Arrows ==
    /\ shown.left <=> rendered.emf > 0
    /\ shown.right <=> rendered.emf < 0
    /\ (~shown.left /\ ~shown.right) <=> rendered.emf = 0
    /\ ~(shown.left /\ shown.right)

\* C9 witness: the render after a tick that saw the flux increase shows the
\* right arrow only.
C9_Witness ==
    /\ rendered.emf < 0
    /\ rendered.emf = EmfOf(rendered.prevPhi, 0)
    /\ rendered.prevPhi > 0
    /\ shown.right
    /\ ~shown.left

\* C10: the stored previous flux and the stored emf change only in a tick.
C10_FrameOfHistory ==
    [][(emf' # emf \/ prevPhi' # prevPhi) => Tick]_vars

\* C10 witness: a tick stored a non-zero sample, and the flux has changed
\* since without the previous flux following it.
C10_Witness ==
    /\ lastTickPhi # <<>>
    /\ emf # 0
    /\ prevPhi # 0
    /\ phi # prevPhi
    /\ lastTickPhi # <<phi>>

\* C11: the field strength starts at 1 T, changes only in a slider change,
\* and is always one of the slider's positions 0, 0.5, ..., 10 T.
C11_FieldStrengthDomain ==
    /\ fieldStrength = 1 * OneTesla
    /\ [][fieldStrength' # fieldStrength =>
            \E v \in SliderValues : SliderChange(v) /\ fieldStrength' = v]_vars
    /\ [](fieldStrength \in 0 .. (10 * OneTesla))

\* C11 witness: the slider was moved to 0 T, and a tilt update, a flux
\* recomputation and a tick have happened since without changing it.
C11_Witness ==
    /\ fieldStrength = 0
    /\ rendered.fieldStrength = 0
    /\ theta # 0
    /\ rendered.theta = theta
    /\ ~effectsPending
    /\ lastTickPhi # <<>>
    /\ prevPhi # 0

\* C12: a tilt update and a slider change give the same stored tilt angle
\* and field strength in either order.  The slider handler stores its value
\* and writes nothing the sensor handler reads or writes; the sensor handler
\* stores a tilt angle that is a function of the reading and of what the
\* slider handler leaves alone, and writes nothing else; so each acts the
\* same before and after the other.  Once both are rendered and the effects
\* have run, the flux is calculateFlux of the stored pair.
C12_IndependentInputs ==
    /\ [][\A v \in SliderValues :
            SliderChange(v) =>
                /\ fieldStrength' = v
                /\ theta' = theta
                /\ <<phase, listenerLive, listenerTheta>>' =
                       <<phase, listenerLive, listenerTheta>>]_vars
    /\ [][\A beta \in Betas :
            SensorUpdate(beta) =>
                /\ fieldStrength' = fieldStrength
                /\ phase' = phase
                /\ theta' = IF /\ phase = "mounted"
                               /\ Abs(listenerTheta - ToDegrees(beta)) >= OneDegree
                            THEN ToDegrees(beta)
                            ELSE theta]_vars
    /\ []((/\ phase = "mounted"
           /\ ~effectsPending
           /\ rendered.theta = theta
           /\ rendered.fieldStrength = fieldStrength)
          => phi = calculateFlux(fieldStrength, phoneArea, theta))

\* C12 witness: a tilt update to -1 degree and a slider change to 0 T have
\* both been applied and the flux was recomputed from them.
C12_Witness ==
    /\ phase = "mounted"
    /\ ~effectsPending
    /\ theta = -1 * OneDegree
    /\ fieldStrength = 0
    /\ rendered.theta = theta
    /\ rendered.fieldStrength = fieldStrength
    /\ phi = calculateFlux(0, phoneArea, -1 * OneDegree)

\* C13: at most one listener is registered and at most one timer is live at
\* any time; the timer is live, and was never cleared, in every state in
\* which the screen is mounted; it is created only by the mount-time effects
\* and cleared only by the unmount.
C13_SingleSubscriptions ==
    /\ [](/\ addCalls <= 1
          /\ addCalls - removeCalls \in {0, 1}
          /\ listenerLive => addCalls - removeCalls = 1
          /\ clearCalls <= 1
          /\ interval = "live" => clearCalls = 0)
    /\ [](phase = "mounted" => (interval = "live" /\ clearCalls = 0))
    /\ [][interval' # interval =>
            \/ (phase = "mounting" /\ interval' = "live")
            \/ (phase' = "unmounted" /\ interval' = "cleared")]_vars

\* C13 witness: the screen is mounted with its listener and timer live after
\* a tilt update, a slider change, a flux recomputation and a tick.
C13_Witness ==
    /\ phase = "mounted"
    /\ listenerLive
    /\ interval = "live"
    /\ rendered.theta # 0
    /\ rendered.fieldStrength = 0
    /\ lastTickPhi # <<>>
    /\ emf # 0
    /\ ~effectsPending

\* C14: every render selects one glyph: the circle (size 20, cell height 20)
\* at a tilt of 80 degrees or more, the circle with cross (size 20, cell
\* height 20) at -80 degrees or less, and in between the long down arrow
\* (size 40) with cell height (|90 - tilt| / 90) * 40.
C14_GlyphSelection ==
    LET t == rendered.theta
    IN  /\ view.name \in {"circle", "circle-with-cross", "arrow-long-down"}
        /\ t >= 80 * OneDegree =>
               /\ view.name = "circle"
               /\ view.size = 20
               /\ view.height = Px(20)
        /\ t <= -80 * OneDegree =>
               /\ view.name = "circle-with-cross"
               /\ view.size = 20
               /\ view.height = Px(20)
        /\ (-80 * OneDegree < t /\ t < 80 * OneDegree) =>
               /\ view.name = "arrow-long-down"
               /\ view.size = 40
               /\ view.height * 90 * OneDegree =
                      Abs(90 * OneDegree - t) * Px(40)

\* C14 witness: a render at exactly 80 degrees shows the circle.
C14_Witness ==
    /\ rendered.theta = 80 * OneDegree
    /\ view.name = "circle"
    /\ view.height = Px(20)

\* C15: in every render the cell height plus twice the vertical margin is 40.
C15_ConstantExtent ==
    view.height + 2 * view.marginVertical = Px(40)

\* C15 witness: a render at -79.5 degrees, where the arrow cell is taller
\* than 40 and the margin is negative.
C15_Witness ==
    /\ rendered.theta = -159
    /\ view.name = "arrow-long-down"
    /\ view.height > Px(40)
    /\ view.marginVertical < 0
    /\ view.height + 2 * view.marginVertical = Px(40)

\* C16 (as claimed): when a render between -80 and 80 degrees follows one of
\* a tilt angle nearer to 90 degrees, its arrow cell is smaller.
C16_ShrinksAwayFrom90 ==
    [][(/\ Render
        /\ -80 * OneDegree < rendered.theta
        /\ rendered.theta < 80 * OneDegree
        /\ -80 * OneDegree < rendered'.theta
        /\ rendered'.theta < 80 * OneDegree
        /\ Abs(90 * OneDegree - rendered'.theta)
               > Abs(90 * OneDegree - rendered.theta))
       => view'.height < view.height]_vars

\* C16 (amended): when a render between -80 and 80 degrees follows one of a
\* tilt angle nearer to 90 degrees, its arrow cell is larger: the height
\* grows linearly with the distance from 90 degrees.
C16_GrowsAwayFrom90 ==
    [][(/\ Render
        /\ -80 * OneDegree < rendered.theta
        /\ rendered.theta < 80 * OneDegree
        /\ -80 * OneDegree < rendered'.theta
        /\ rendered'.theta < 80 * OneDegree
        /\ Abs(90 * OneDegree - rendered'.theta)
               > Abs(90 * OneDegree - rendered.theta))
       => view'.height > view.height]_vars

\* C16 witness: the render at -30 degrees, farther from 90 degrees than the
\* first render at 0 degrees (height 40), has a cell of height 53 1/3.
C16_Witness ==
    /\ rendered.theta = -30 * OneDegree
    /\ view.name = "arrow-long-down"
    /\ view.height = 480
    /\ view.height > Px(40)

\* C17: the opacity a render gives the glyph cells is its field strength
\* over 10 (in percent: 0 at 0 T, 50 at 5 T, 100 at 10 T), lies in [0, 1],
\* and does not change in a step that leaves that field strength alone.
C17_Opacity ==
    /\ [](/\ view.opacity * 10 * OneTesla = rendered.fieldStrength * 100
          /\ view.opacity \in 0 .. 100
          /\ rendered.fieldStrength = 0 => view.opacity = 0
          /\ rendered.fieldStrength = 5 * OneTesla => view.opacity = 50
          /\ rendered.fieldStrength = 10 * OneTesla => view.opacity = 100)
    /\ [][rendered'.fieldStrength = rendered.fieldStrength
              => view'.opacity = view.opacity]_vars

\* C17 witness: a render at 10 T and 80 degrees, with its flux recomputed,
\* is fully opaque.
C17_Witness ==
    /\ rendered.fieldStrength = 10 * OneTesla
    /\ rendered.theta = 80 * OneDegree
    /\ rendered.phi # 0
    /\ view.opacity = 100

\* C18: the grid of every render has 50 slots, indexes 0 to 49: the 25 even
\* ones are glyph cells, the 25 odd ones spacers of width 60.
C18_GridComposition ==
    /\ DOMAIN view.slots = 0 .. 49
    /\ Cardinality(DOMAIN view.slots) = 50
    /\ \A i \in DOMAIN view.slots :
           IF i % 2 = 0
           THEN view.slots[i].kind = "cell"
           ELSE view.slots[i].kind = "spacer" /\ view.slots[i].width = 60
    /\ Cardinality({i \in DOMAIN view.slots : view.slots[i].kind = "cell"}) = 25
    /\ Cardinality({i \in DOMAIN view.slots : view.slots[i].kind = "spacer"}) = 25

\* C18 witness: the grid of a render at -80 degrees and 0 T.
C18_Witness ==
    /\ rendered.theta = -80 * OneDegree
    /\ rendered.fieldStrength = 0
    /\ view.name = "circle-with-cross"
    /\ view.slots[0].kind = "cell"
    /\ view.slots[49].kind = "spacer"

C20_Telescoping ==
    ticks >= 1 => sumEmf = -10 * (prevPhi - 0)

====
